---- MODULE Spec2Model ----
(***************************************************************************)
(* Model of models.ipynb: two classification tasks (magnetic ordering,     *)
(* topological phase), each a 5-fold shuffled cross-validation of a loaded *)
(* classifier followed by a held-out evaluation.  The notebook's cells are *)
(* executed in their written order.                                        *)
(*                                                                         *)
(* Feature rows are opaque: a row is the pair <<file, index>>.  Labels are *)
(* 0/1.  Scores are exact fractions <<numerator, denominator>> in lowest   *)
(* terms; printed values are integers in units of the last printed digit.  *)
(*                                                                         *)
(* The library calls (KFold.split, f1_score, clf.score, round,             *)
(* classification_report) are modelled by what scikit-learn and Python     *)
(* compute.  The fitted forest is opaque: a fit records the rows it was    *)
(* given, a predict returns some label vector.                             *)
(*                                                                         *)
(* Spec is the whole notebook.  A run of it explores one source of         *)
(* nondeterminism of one task in full (focus: every shuffle, or every      *)
(* prediction vector) and takes one outcome for the others.  SpecSplit     *)
(* runs the split alone and SpecMetrics the metric calls alone, each over  *)
(* all of its inputs up to the bounds.                                     *)
(***************************************************************************)
EXTENDS Integers, Sequences, FiniteSets, TLC

\* ---------------------------------------------------------------- bounds
MaxTrain == 6       \* largest training-set size of the task in focus
MaxHold == 2        \* largest held-out size of the task in focus
MaxSplitN == 7      \* largest sample count of the split-only specification
MaxLen == 6         \* longest label vector of the metrics-only specification

\* ------------------------------------------------------ program constants
K == 5              \* KFold(n_splits=5, ...)

Labels == {0, 1}
Tasks == <<"mag", "topo">>

\* ---------------------------------------------------------------- helpers
RECURSIVE Gcd(_, _)
Gcd(a, b) == IF b = 0 THEN a ELSE Gcd(b, a % b)

RECURSIVE Perms(_)
Perms(S) ==
  IF S = {} THEN {<<>>}
  ELSE UNION {{<<x>> \o p : p \in Perms(S \ {x})} : x \in S}

RECURSIVE SortedSeq(_)
\* an index set as the ascending array numpy's boolean-mask indexing yields
SortedSeq(S) ==
  IF S = {} THEN <<>>
  ELSE LET m == CHOOSE x \in S : \A y \in S : x <= y
       IN <<m>> \o SortedSeq(S \ {m})

Range(s) == {s[j] : j \in 1..Len(s)}

BinVectors(len) == [1..len -> Labels]

Identity(n) == [j \in 1..n |-> j - 1]

\* ------------------------------------------------------------ KFold.split
\* fold_sizes = full(n_splits, n // n_splits); fold_sizes[:n % n_splits] += 1
FoldSize(n, i) == (n \div K) + (IF i < n % K THEN 1 ELSE 0)

\* faulty variant: every fold starts at a multiple of n // n_splits (remainder ignored)
FoldStartNoRemainder(n, i) == i * (n \div K)

RECURSIVE FoldStart(_, _)
\* current = 0; for fold_size in fold_sizes: start = current; current = stop
FoldStart(n, i) == IF i = 0 THEN 0 ELSE FoldStart(n, i - 1) + FoldSize(n, i - 1)

\* test indices of fold i: indices[start:stop] of the shuffled index array
TestIndices(indices, n, i) ==
  {indices[j + 1] : j \in FoldStart(n, i)..(FoldStart(n, i) + FoldSize(n, i) - 1)}

\* train_index = indices[logical_not(test_mask)]
TrainIndices(indices, n, i) == (0..(n - 1)) \ TestIndices(indices, n, i)

\* ---------------------------------------------------------------- metrics
\* a fraction in lowest terms; Frac(0, d) = <<0, 1>>
Frac(n, d) == LET g == Gcd(n, d) IN <<n \div g, d \div g>>

Zero == <<0, 1>>
One == <<1, 1>>

FAdd(a, b) == Frac(a[1] * b[2] + b[1] * a[2], a[2] * b[2])
FSub(a, b) == Frac(a[1] * b[2] - b[1] * a[2], a[2] * b[2])
FMul(a, b) == Frac(a[1] * b[1], a[2] * b[2])
FLeq(a, b) == a[1] * b[2] <= b[1] * a[2]

\* a / b with sklearn's zero_division handling: the result is 0 where b = 0
FDivOrZero(a, b) == IF b[1] = 0 THEN Zero ELSE Frac(a[1] * b[2], a[2] * b[1])

Count(y_true, y_pred, t, p) ==
  Cardinality({j \in 1..Len(y_true) : y_true[j] = t /\ y_pred[j] = p})

\* precision_recall_fscore_support(..., average='binary', pos_label=pos)
Precision(y_true, y_pred, pos) ==
  LET tp == Count(y_true, y_pred, pos, pos)
      fp == Count(y_true, y_pred, 1 - pos, pos)
  IN FDivOrZero(<<tp, 1>>, <<tp + fp, 1>>)

Recall(y_true, y_pred, pos) ==
  LET tp == Count(y_true, y_pred, pos, pos)
      fn == Count(y_true, y_pred, pos, 1 - pos)
  IN FDivOrZero(<<tp, 1>>, <<tp + fn, 1>>)

\* faulty variant: the zero-division case reports 1 instead of 0
F1ScoreZeroDivOne(y_true, y_pred, pos) ==
  LET P == Precision(y_true, y_pred, pos)
      R == Recall(y_true, y_pred, pos)
  IN IF FAdd(P, R) = Zero THEN One
     ELSE FDivOrZero(FMul(<<2, 1>>, FMul(P, R)), FAdd(P, R))

\* f1_score(y_true, y_pred, pos_label=pos): 2PR / (P + R), 0 where P + R = 0
F1Score(y_true, y_pred, pos) ==
  LET P == Precision(y_true, y_pred, pos)
      R == Recall(y_true, y_pred, pos)
  IN FDivOrZero(FMul(<<2, 1>>, FMul(P, R)), FAdd(P, R))

\* faulty variant: both values are computed with the first label as positive
FoldScoresSamePolarity(y_true, y_pred, positive_label, negative_label) ==
  <<F1Score(y_true, y_pred, positive_label),
    F1Score(y_true, y_pred, positive_label)>>

\* the two f1_score calls of one fold: <<f1s_fm, f1s_afm>> (<<f1s_topo,
\* f1s_triv>>); the notebook passes pos_label=1 to the first, 0 to the second
FoldScores(y_true, y_pred, positive_label, negative_label) ==
  <<F1Score(y_true, y_pred, positive_label),
    F1Score(y_true, y_pred, negative_label)>>

\* faulty variant: the share of predicted positives instead of the share of matches
AccuracyPredictedPositives(y_true, y_pred) ==
  Frac(Cardinality({j \in 1..Len(y_true) : y_pred[j] = 1}), Len(y_true))

\* clf.score: accuracy_score(y, clf.predict(X)) = mean(y_true == y_pred)
Accuracy(y_true, y_pred) ==
  Frac(Cardinality({j \in 1..Len(y_true) : y_true[j] = y_pred[j]}), Len(y_true))

\* ------------------------------------------------- float to decimal digits
RECURSIVE PowMod2(_, _)
PowMod2(e, d) == IF e = 0 THEN 1 % d ELSE (2 * PowMod2(e - 1, d)) % d

RECURSIVE IsPow2(_)
IsPow2(d) == IF d = 1 THEN TRUE ELSE IF d % 2 = 1 THEN FALSE ELSE IsPow2(d \div 2)

RECURSIVE Scaled(_, _)
\* n * 2^t, the first one in [d/2, d), for 0 < n < d
Scaled(n, d) == IF 2 * n >= d THEN n ELSE Scaled(2 * n, d)

\* whether the float64 nearest to n / d (0 < n < d, d no power of 2) lies above
\* it: the 53-bit significand is n * 2^(53 + t) / d rounded to an integer
DoubleAbove(n, d) == 2 * ((Scaled(n, d) * PowMod2(53, d)) % d) > d

\* round(x, 2), '%.2f' % x, '{:.3f}'.format(x) for the float x nearest to the
\* fraction f: the nearest multiple of 1/scale to x, in units of 1/scale; a tie
\* of an exactly representable x goes to the even digit
RoundTo(f, scale) ==
  LET q == (scale * f[1]) \div f[2]
      r == (scale * f[1]) % f[2]
  IN IF 2 * r < f[2] THEN q
     ELSE IF 2 * r > f[2] THEN q + 1
     ELSE IF IsPow2(f[2]) THEN (IF q % 2 = 0 THEN q ELSE q + 1)
     ELSE IF DoubleAbove(f[1] % f[2], f[2]) THEN q + 1 ELSE q

\* ------------------------------------------------------- np.mean/median/std
RECURSIVE FSum(_)
FSum(s) == IF s = <<>> THEN Zero ELSE FAdd(s[1], FSum(Tail(s)))

Mean(s) == FMul(FSum(s), <<1, Len(s)>>)

\* np.median: the middle element of the sorted array (odd length), else the
\* mean of the two middle ones
Median(s) ==
  LET rank(j) == Cardinality({i \in 1..Len(s) : ~ FLeq(s[j], s[i])})
      ties(j) == Cardinality({i \in 1..Len(s) : s[i] = s[j]})
      at(p) == s[CHOOSE j \in 1..Len(s) : rank(j) < p /\ p <= rank(j) + ties(j)]
  IN IF Len(s) % 2 = 1 THEN at((Len(s) + 1) \div 2)
     ELSE FMul(FAdd(at(Len(s) \div 2), at(Len(s) \div 2 + 1)), <<1, 2>>)

\* np.std squared: the population variance
Variance(s) ==
  LET mu == Mean(s)
  IN Mean([j \in 1..Len(s) |-> FMul(FSub(s[j], mu), FSub(s[j], mu))])

\* sqrt(v) in units of 1/scale, rounded to the nearest
RoundSqrt(v, scale) ==
  CHOOSE h \in 0..scale :
    /\ (2 * h - 1) * (2 * h - 1) * v[2] <= 4 * scale * scale * v[1] \/ h = 0
    /\ 4 * scale * scale * v[1] < (2 * h + 1) * (2 * h + 1) * v[2]

\* (np.mean(s), np.median(s), np.std(s)) formatted with %.2f
Summary(s) ==
  [mean |-> RoundTo(Mean(s), 100),
   median |-> RoundTo(Median(s), 100),
   stdev |-> RoundSqrt(Variance(s), 100)]

\* -------------------------------------------------------------- the state
VARIABLES
  disk,          \* the label files under data/: file name -> label array
  focus,         \* what this run explores in full: [task, what]
  pc,            \* the cell to run next: [task, at]
  X_train, y_train, X_test, y_test,
  clf,           \* the classifier object bound to clf
  gen,           \* enumerate(kf.split(...)): the shuffled indices, the fold
  k, train, test,
  fm_scores, afm_scores, topo_scores, triv_scores,
  y_pred,        \* what the fitted model predicts for X_test, once asked
  calls,         \* the classifier calls made by the last step
  stdout, Out,
  yielded,       \* split-only specification: the folds yielded so far
  m_true, m_pred, m_fold, m_swapped, m_holdout

nbvars == <<disk, focus, pc, X_train, y_train, X_test, y_test, clf, k, train,
            test, fm_scores, afm_scores, topo_scores, triv_scores, y_pred,
            calls, stdout, Out>>
mvars == <<m_true, m_pred, m_fold, m_swapped, m_holdout>>
vars == <<nbvars, gen, yielded, mvars>>

TrainFile(t) == IF t = "mag" THEN "X_train.json" ELSE "mtm_X_train.json"
TestFile(t) == IF t = "mag" THEN "X_test.json" ELSE "mtm_X_test.json"
ModelFile(t) == IF t = "mag" THEN "mag_clf.joblib" ELSE "mag_topo_clf.joblib"
TestFiles == {TestFile(Tasks[j]) : j \in 1..Len(Tasks)}

\* print labels and target_names: label 1 is FM / Topological
ClassName(t, label) ==
  IF t = "mag" THEN (IF label = 1 THEN "FM" ELSE "AFM")
  ELSE (IF label = 1 THEN "Topological" ELSE "Trivial")

Unbound == [file |-> "unbound", n |-> 0]
NoClf == [inst |-> "unbound", fitted_on |-> {}, n_fits |-> 0]
NoGen == [live |-> FALSE, n |-> 0, indices |-> <<>>, i |-> 0]

\* the rows X[idx] of a loaded feature matrix
Rows(X, idx) == {<<X.file, j>> : j \in idx}
AllRows(X) == Rows(X, 0..(X.n - 1))

\* y[idx] for an ascending index array
Take(y, idx) == [j \in 1..Len(idx) |-> y[idx[j] + 1]]

Alternating(n) == [j \in 1..n |-> (j - 1) % 2]

\* the outcomes explored of np.random's shuffle of arange(n): every
\* permutation for the task whose shuffle is in focus, else the identity
Shuffles(t, n) ==
  IF focus = [task |-> t, what |-> "shuffle"] THEN Perms(0..(n - 1))
  ELSE {Identity(n)}

\* the outcomes explored of clf.predict on len rows (the fitted forest is
\* opaque): every label vector for the task whose predictions are in focus,
\* else all zeros
Predictions(t, len) ==
  IF focus = [task |-> t, what |-> "predict"] THEN BinVectors(len)
  ELSE {[j \in 1..len |-> 0]}

\* faulty variant: the loaded classifier of the first task is kept for the second
ClfStale(t) ==
  IF t = "mag" THEN [inst |-> ModelFile(t), fitted_on |-> {}, n_fits |-> 0]
  ELSE clf

\* clf = load(modeldir + ...): a new object; what it was fitted on is not known
ClfLoaded(t) == [inst |-> ModelFile(t), fitted_on |-> {}, n_fits |-> 0]

\* faulty variant: each fit adds to what was learnt before (a warm start)
FitAccumulating(c, rows) ==
  [c EXCEPT !.fitted_on = @ \cup rows, !.n_fits = @ + 1]

\* faulty variant: the fold fits a clone, the bound object stays as it was
FitClone(c, rows) == c

\* clf.fit(X, y): the same object, its fitted state replaced
Fit(c, rows) == [c EXCEPT !.fitted_on = rows, !.n_fits = @ + 1]

\* faulty variant: the fold is fit on every row, the scored ones included
FoldTrainAll(g) == SortedSeq(0..(g.n - 1))

\* next(kf.split(X_train, y_train)): the train array of the fold
FoldTrain(g) == SortedSeq(TrainIndices(g.indices, g.n, g.i))

FoldTest(g) == SortedSeq(TestIndices(g.indices, g.n, g.i))

\* faulty variant: the fold predicts on rows of X_test
PredictRowsHeldOut(idx) == Rows(X_test, Range(idx))

\* X_train[test], the rows handed to clf.predict inside the loop
PredictRows(idx) == Rows(X_train, Range(idx))

\* faulty variant: a score is recorded twice
AppendTwice(scores, f1s) == scores \o <<f1s, f1s>>

\* fm_scores.append(f1s_fm)
AppendScore(scores, f1s) == Append(scores, f1s)

Call(op, rows, ret) == [op |-> op, clf |-> clf.inst, rows |-> rows, ret |-> ret]

Line(kind, fold, name, value) ==
  [kind |-> kind, fold |-> fold, name |-> name, value |-> value]

At(t, at) == pc = [task |-> t, at |-> at]
Goto(t, at) == pc' = [task |-> t, at |-> at]

PosScores(t) == IF t = "mag" THEN fm_scores ELSE topo_scores
NegScores(t) == IF t = "mag" THEN afm_scores ELSE triv_scores

SetScores(t, pos, neg) ==
  IF t = "mag"
  THEN fm_scores' = pos /\ afm_scores' = neg /\ UNCHANGED <<topo_scores, triv_scores>>
  ELSE topo_scores' = pos /\ triv_scores' = neg /\ UNCHANGED <<fm_scores, afm_scores>>

nbidle == <<yielded, mvars>>

\* ------------------------------------------------------ the notebook cells
\* X_train = pd.read_json(...).values; y_train = loadfn(...)
LoadTrain(t) ==
  /\ At(t, "load_train")
  /\ X_train' = [file |-> TrainFile(t), n |-> Len(disk[TrainFile(t)])]
  /\ y_train' = disk[TrainFile(t)]
  /\ calls' = <<>>
  /\ Goto(t, "load_clf")
  /\ UNCHANGED <<disk, focus, X_test, y_test, clf, gen, k, train, test,
                 fm_scores, afm_scores, topo_scores, triv_scores, y_pred,
                 stdout, Out, nbidle>>

LoadClf(t) ==
  /\ At(t, "load_clf")
  /\ clf' = ClfLoaded(t)
  /\ y_pred' = <<>>
  /\ calls' = <<>>
  /\ Goto(t, "cv_start")
  /\ UNCHANGED <<disk, focus, X_train, y_train, X_test, y_test, gen, k, train,
                 test, fm_scores, afm_scores, topo_scores, triv_scores,
                 stdout, Out, nbidle>>

\* the score lists emptied, kf = KFold(n_splits=5, shuffle=True),
\* kf.get_n_splits (no effect), and the for statement's
\* enumerate(kf.split(X_train, y_train)); split raises a ValueError for fewer
\* than n_splits samples
CVStart(t) ==
  /\ At(t, "cv_start")
  /\ X_train.n >= K
  /\ SetScores(t, <<>>, <<>>)
  /\ \E indices \in Shuffles(t, X_train.n) :
       gen' = [live |-> TRUE, n |-> X_train.n, indices |-> indices, i |-> 0]
  /\ calls' = <<>>
  /\ Goto(t, "cv_loop")
  /\ UNCHANGED <<disk, focus, X_train, y_train, X_test, y_test, clf, k, train,
                 test, y_pred, stdout, Out, nbidle>>

\* one pass of the loop body: fit, two predict calls, two appends, two prints
Fold(t) ==
  /\ At(t, "cv_loop")
  /\ gen.live /\ gen.i < K
  /\ LET tr == FoldTrain(gen)
         te == FoldTest(gen)
     IN /\ k' = gen.i
        /\ train' = tr
        /\ test' = te
        /\ clf' = Fit(clf, Rows(X_train, Range(tr)))
        /\ \E p \in Predictions(t, Len(te)) :
             LET f1s == FoldScores(Take(y_train, te), p, 1, 0)
             IN /\ calls' = <<Call("fit", Rows(X_train, Range(tr)), <<>>),
                              Call("predict", PredictRows(te), p),
                              Call("predict", PredictRows(te), p)>>
                /\ SetScores(t, AppendScore(PosScores(t), f1s[1]),
                                AppendScore(NegScores(t), f1s[2]))
                /\ stdout' = stdout \o
                     <<Line("fold", gen.i, ClassName(t, 1), <<RoundTo(f1s[1], 1000)>>),
                       Line("fold", gen.i, ClassName(t, 0), <<RoundTo(f1s[2], 1000)>>)>>
  /\ gen' = [gen EXCEPT !.i = @ + 1]
  /\ y_pred' = <<>>
  /\ UNCHANGED <<disk, focus, pc, X_train, y_train, X_test, y_test, Out, nbidle>>

\* the generator is exhausted: np.array(...) of both lists, two summary prints
CVSummary(t) ==
  /\ At(t, "cv_loop")
  /\ gen.live /\ gen.i = K
  /\ gen' = NoGen
  /\ LET sp == Summary(PosScores(t))
         sn == Summary(NegScores(t))
     IN stdout' = stdout \o
          <<Line("summary", K, ClassName(t, 1), <<sp.mean, sp.median, sp.stdev>>),
            Line("summary", K, ClassName(t, 0), <<sn.mean, sn.median, sn.stdev>>)>>
  /\ calls' = <<>>
  /\ Goto(t, "load_test")
  /\ UNCHANGED <<disk, focus, X_train, y_train, X_test, y_test, clf, k, train,
                 test, fm_scores, afm_scores, topo_scores, triv_scores, y_pred,
                 Out, nbidle>>

LoadTest(t) ==
  /\ At(t, "load_test")
  /\ X_test' = [file |-> TestFile(t), n |-> Len(disk[TestFile(t)])]
  /\ y_test' = disk[TestFile(t)]
  /\ calls' = <<>>
  /\ Goto(t, "score")
  /\ UNCHANGED <<disk, focus, X_train, y_train, clf, gen, k, train, test,
                 fm_scores, afm_scores, topo_scores, triv_scores, y_pred,
                 stdout, Out, nbidle>>

\* round(clf.score(X_test, y_test), 2)
Score(t) ==
  /\ At(t, "score")
  /\ \E p \in (IF y_pred = <<>> THEN Predictions(t, X_test.n) ELSE {y_pred}) :
       /\ y_pred' = p
       /\ calls' = <<Call("score", AllRows(X_test), Accuracy(y_test, p))>>
       /\ Out' = [Out EXCEPT ![t] = RoundTo(Accuracy(y_test, p), 100)]
  /\ Goto(t, "report")
  /\ UNCHANGED <<disk, focus, X_train, y_train, X_test, y_test, clf, gen, k,
                 train, test, fm_scores, afm_scores, topo_scores, triv_scores,
                 stdout, nbidle>>

NextCell(t) ==
  IF t = Tasks[1] THEN [task |-> Tasks[2], at |-> "load_train"]
  ELSE [task |-> "done", at |-> "done"]

\* the rows of classification_report(y_true, y_pred, target_names=[neg, pos])
ReportLines(t, y_true, p) ==
  LET n == Len(y_true)
      sup(c) == Cardinality({j \in 1..n : y_true[j] = c})
      m(c) == <<Precision(y_true, p, c), Recall(y_true, p, c), F1Score(y_true, p, c)>>
      macro(j) == FMul(FAdd(m(0)[j], m(1)[j]), <<1, 2>>)
      wavg(j) == FMul(FAdd(FMul(<<sup(0), 1>>, m(0)[j]), FMul(<<sup(1), 1>>, m(1)[j])),
                      <<1, n>>)
      row(f, s) == <<RoundTo(f[1], 100), RoundTo(f[2], 100), RoundTo(f[3], 100), s>>
  IN <<Line("report", 0, ClassName(t, 0), row(m(0), sup(0))),
       Line("report", 1, ClassName(t, 1), row(m(1), sup(1))),
       Line("report", 2, "accuracy", <<RoundTo(Accuracy(y_true, p), 100), n>>),
       Line("report", 3, "macro avg", row(<<macro(1), macro(2), macro(3)>>, n)),
       Line("report", 4, "weighted avg", row(<<wavg(1), wavg(2), wavg(3)>>, n))>>

\* print(classification_report(y_test, clf.predict(X_test), target_names=...))
Report(t) ==
  /\ At(t, "report")
  /\ \E p \in (IF y_pred = <<>> THEN Predictions(t, X_test.n) ELSE {y_pred}) :
       /\ y_pred' = p
       /\ calls' = <<Call("predict", AllRows(X_test), p)>>
       /\ Cardinality(Range(y_test) \cup Range(p)) = 2
       /\ stdout' = stdout \o ReportLines(t, y_test, p)
  /\ pc' = NextCell(t)
  /\ UNCHANGED <<disk, focus, X_train, y_train, X_test, y_test, clf, gen, k,
                 train, test, fm_scores, afm_scores, topo_scores, triv_scores,
                 Out, nbidle>>

\* classification_report raises a ValueError when the labels present are not
\* as many as the target names; the run stops at the failing cell
ReportRaises(t) ==
  /\ At(t, "report")
  /\ \E p \in (IF y_pred = <<>> THEN Predictions(t, X_test.n) ELSE {y_pred}) :
       /\ y_pred' = p
       /\ calls' = <<Call("predict", AllRows(X_test), p)>>
       /\ Cardinality(Range(y_test) \cup Range(p)) # 2
  /\ Goto(t, "raised")
  /\ UNCHANGED <<disk, focus, X_train, y_train, X_test, y_test, clf, gen, k,
                 train, test, fm_scores, afm_scores, topo_scores, triv_scores,
                 stdout, Out, nbidle>>

\* the files on disk: the task in focus with every size up to the bounds, the
\* other task with the smallest training set KFold accepts
Worlds(f) ==
  {[file \in {TrainFile("mag"), TrainFile("topo"), TestFile("mag"), TestFile("topo")} |->
      IF file = TrainFile(f) THEN Alternating(n)
      ELSE IF file = TestFile(f) THEN Alternating(h)
      ELSE IF file \in TestFiles THEN Alternating(2)
      ELSE Alternating(K)] : n \in K..MaxTrain, h \in 1..MaxHold}

NbFresh ==
  /\ X_train = Unbound /\ y_train = <<>> /\ X_test = Unbound /\ y_test = <<>>
  /\ clf = NoClf /\ k = 0 /\ train = <<>> /\ test = <<>>
  /\ fm_scores = <<>> /\ afm_scores = <<>> /\ topo_scores = <<>> /\ triv_scores = <<>>
  /\ y_pred = <<>> /\ calls = <<>> /\ stdout = <<>>
  /\ Out = [t \in {"mag", "topo"} |-> -1]

MIdle ==
  m_true = <<>> /\ m_pred = <<>> /\ m_fold = <<>> /\ m_swapped = <<>> /\ m_holdout = -1

Init ==
  /\ focus \in [task : {"mag", "topo"}, what : {"shuffle", "predict"}]
  /\ disk \in Worlds(focus.task)
  /\ pc = [task |-> Tasks[1], at |-> "load_train"]
  /\ NbFresh
  /\ gen = NoGen /\ yielded = <<>> /\ MIdle

Next ==
  \E t \in {"mag", "topo"} :
    \/ LoadTrain(t)
    \/ LoadClf(t)
    \/ CVStart(t)
    \/ Fold(t)
    \/ CVSummary(t)
    \/ LoadTest(t)
    \/ Score(t)
    \/ Report(t)
    \/ ReportRaises(t)

Spec == Init /\ [][Next]_vars

\* ------------------------------------------- the split alone, every shuffle
NbIdle ==
  /\ focus = [task |-> "none", what |-> "none"]
  /\ disk = <<>>
  /\ pc = [task |-> "done", at |-> "done"]
  /\ NbFresh

InitSplit ==
  /\ NbIdle /\ MIdle
  /\ yielded = <<>>
  /\ \E n \in K..MaxSplitN : \E indices \in Perms(0..(n - 1)) :
       gen = [live |-> TRUE, n |-> n, indices |-> indices, i |-> 0]

\* next() on the generator: one (train, test) pair
SplitNext ==
  /\ gen.live /\ gen.i < K
  /\ yielded' = Append(yielded, [train |-> FoldTrain(gen), test |-> FoldTest(gen)])
  /\ gen' = [gen EXCEPT !.i = @ + 1]
  /\ UNCHANGED <<nbvars, mvars>>

SplitStop ==
  /\ gen.live /\ gen.i = K
  /\ gen' = [gen EXCEPT !.live = FALSE]
  /\ UNCHANGED <<nbvars, yielded, mvars>>

NextSplit == SplitNext \/ SplitStop

SpecSplit == InitSplit /\ [][NextSplit]_vars

\* ------------------------------- the metrics alone, every pair of vectors
InitMetrics ==
  /\ NbIdle /\ gen = NoGen /\ yielded = <<>>
  /\ \E len \in 1..MaxLen :
       m_true \in BinVectors(len) /\ m_pred \in BinVectors(len)
  /\ m_fold = <<>> /\ m_swapped = <<>> /\ m_holdout = -1

\* the fold's two f1_score calls, as written and with the two labels exchanged
EvalFold ==
  /\ m_fold = <<>>
  /\ m_fold' = FoldScores(m_true, m_pred, 1, 0)
  /\ m_swapped' = FoldScores(m_true, m_pred, 0, 1)
  /\ UNCHANGED <<nbvars, gen, yielded, m_true, m_pred, m_holdout>>

\* round(clf.score(X_test, y_test), 2) for predictions m_pred
EvalHoldout ==
  /\ m_holdout = -1
  /\ m_holdout' = RoundTo(Accuracy(m_true, m_pred), 100)
  /\ UNCHANGED <<nbvars, gen, yielded, m_true, m_pred, m_fold, m_swapped>>

NextMetrics == EvalFold \/ EvalHoldout

SpecMetrics == InitMetrics /\ [][NextMetrics]_vars

\* ================================================================== claims
InLoop == pc.at = "cv_loop"
AfterLoop == pc.at \in {"load_test", "score", "report", "raised"}
Last(s) == s[Len(s)]
HeldOut(rows) == {r \in rows : r[1] \in TestFiles}
TaskRows(t) == {TrainFile(t), TestFile(t)}
CallsOf(op) == {j \in 1..Len(calls) : calls[j].op = op}

\* C1: the test sets of the folds a split yields are pairwise disjoint, and
\* once all K folds are yielded every index 0..n-1 lies in the test set of
\* exactly one fold, whatever the shuffle.
C1_TestFoldsPartition ==
  /\ \A a, b \in 1..Len(yielded) :
       a # b => Range(yielded[a].test) \cap Range(yielded[b].test) = {}
  /\ gen.i = K =>
       /\ Len(yielded) = K
       /\ \A j \in 0..(gen.n - 1) :
            Cardinality({a \in 1..K : j \in Range(yielded[a].test)}) = 1
       /\ UNION {Range(yielded[a].test) : a \in 1..K} = 0..(gen.n - 1)

C1_Witness ==
  /\ gen.i = K /\ Len(yielded) = K /\ gen.n = K + 1
  /\ gen.indices # Identity(gen.n)
  /\ Len(yielded[1].test) = 2

\* C2: in every fold i the fit call receives exactly the rows of all folds but
\* i, both predict calls receive exactly the rows of fold i, the two row sets
\* are disjoint and together are all of X_train, and the two recorded scores
\* are the F1 values of those predictions against y_train[test].
C2_FitExcludesScoredFold ==
  (InLoop /\ gen.i > 0) =>
    LET i == gen.i - 1
        others == UNION {TestIndices(gen.indices, gen.n, j) : j \in (0..(K - 1)) \ {i}}
        fold == TestIndices(gen.indices, gen.n, i)
    IN /\ Len(calls) = 3
       /\ calls[1].op = "fit" /\ calls[2].op = "predict" /\ calls[3].op = "predict"
       /\ calls[1].rows = Rows(X_train, others)
       /\ calls[2].rows = Rows(X_train, fold) /\ calls[3].rows = Rows(X_train, fold)
       /\ calls[1].rows \cap calls[2].rows = {}
       /\ calls[1].rows \cup calls[2].rows = AllRows(X_train)
       /\ clf.fitted_on = calls[1].rows
       /\ Last(PosScores(pc.task)) = F1Score(Take(y_train, test), calls[2].ret, 1)
       /\ Last(NegScores(pc.task)) = F1Score(Take(y_train, test), calls[3].ret, 0)

C2_Witness ==
  /\ InLoop /\ gen.i = 3 /\ gen.n = K + 1
  /\ focus.what = "shuffle" /\ gen.indices # Identity(gen.n)
  /\ Len(calls) = 3 /\ calls[1].op = "fit"

\* C3: one classifier object is re-fit by every fold (no clone), and from the
\* end of the loop through the held-out score and report its fitted state is
\* the train rows of the last fold, K - 1; the scoring steps make no fit call.
C3_HoldoutScoredOnLastFoldFit ==
  /\ InLoop =>
       /\ clf.inst = ModelFile(pc.task) /\ clf.n_fits = gen.i
       /\ gen.i > 0 => clf.fitted_on = Rows(X_train, Range(train)) /\ k = gen.i - 1
  /\ AfterLoop =>
       /\ clf.inst = ModelFile(pc.task) /\ clf.n_fits = K /\ k = K - 1
       /\ clf.fitted_on = Rows(X_train, Range(train))
       /\ CallsOf("fit") = {}
  /\ \A j \in 1..Len(calls) :
       HeldOut(calls[j].rows) # {} =>
         /\ CallsOf("fit") = {}
         /\ calls[j].clf = clf.inst
         /\ clf.n_fits = K /\ k = K - 1
         /\ clf.fitted_on = Rows(X_train, Range(train))

C3_Witness ==
  /\ pc = [task |-> "mag", at |-> "report"]
  /\ Len(calls) = 1 /\ calls[1].op = "score"
  /\ clf.n_fits = K /\ clf.fitted_on = Rows(X_train, Range(train))

\* C4 as stated: when the held-out set is scored, the classifier has been fit
\* on the whole cross-validation set.
C4_Original_ScoredAfterFitOnAll ==
  \A j \in CallsOf("score") : clf.fitted_on = AllRows(X_train)

\* C4 amended: Created (no fit), then one fit per fold, K in all, then scored
\* against the held-out set; there is no fit on the whole cross-validation
\* set, the scored state lacks the rows of the last fold's test set.
C4_LifecycleWithoutFitOnAll ==
  /\ pc.at = "cv_start" => clf.n_fits = 0 /\ clf.fitted_on = {}
  /\ clf.n_fits <= K
  /\ clf.fitted_on # {} => clf.fitted_on # AllRows(X_train)
  /\ \A j \in CallsOf("score") :
       /\ clf.n_fits = K
       /\ test # <<>>
       /\ clf.fitted_on = AllRows(X_train) \ Rows(X_train, Range(test))
       /\ calls[j].rows = AllRows(X_test)

C4_Witness ==
  /\ pc = [task |-> "topo", at |-> "report"]
  /\ CallsOf("score") # {}
  /\ Cardinality(clf.fitted_on) = X_train.n - 1

\* C5: no fit call and no call made inside the fold loop receives a held-out
\* row; held-out rows go only to the score and predict calls made after the
\* loop has ended.
C5_HeldOutOnlyAfterLoop ==
  \A j \in 1..Len(calls) :
    /\ calls[j].op = "fit" => HeldOut(calls[j].rows) = {}
    /\ InLoop => HeldOut(calls[j].rows) = {}
    /\ HeldOut(calls[j].rows) # {} =>
         /\ calls[j].op \in {"score", "predict"}
         /\ ~ gen.live
         /\ Len(calls) = 1

C5_Witness ==
  /\ pc.task = "topo" /\ InLoop /\ gen.i = 2
  /\ X_test.file = TestFile("mag")
  /\ Len(calls) = 3

\* C9: while the loop runs, both score lists and the number of fits equal the
\* number of folds done; after it they are K; list entry i + 1 is the score
\* printed for fold i; the summary lines exist only once K folds are recorded.
C9_OneScorePerFold ==
  /\ InLoop =>
       /\ Len(PosScores(pc.task)) = gen.i /\ Len(NegScores(pc.task)) = gen.i
       /\ clf.n_fits = gen.i
  /\ AfterLoop =>
       /\ Len(PosScores(pc.task)) = K /\ Len(NegScores(pc.task)) = K
       /\ clf.n_fits = K
  /\ \A t \in {"mag", "topo"} : \A c \in Labels :
       LET scores == IF c = 1 THEN PosScores(t) ELSE NegScores(t)
           lines(kind) == {j \in 1..Len(stdout) :
                             stdout[j].kind = kind /\ stdout[j].name = ClassName(t, c)}
       IN /\ Cardinality(lines("fold")) = Len(scores)
          /\ \A j \in lines("fold") :
               /\ stdout[j].fold < Len(scores)
               /\ stdout[j].value = <<RoundTo(scores[stdout[j].fold + 1], 1000)>>
          /\ \A j \in lines("summary") :
               /\ Len(scores) = K
               /\ \A f \in lines("fold") : f < j
          /\ Cardinality(lines("summary")) <= 1

C9_Witness ==
  /\ pc = [task |-> "mag", at |-> "load_test"]
  /\ focus = [task |-> "mag", what |-> "predict"]
  /\ Len(fm_scores) = K /\ fm_scores[1] # fm_scores[2]
  /\ \E j \in 1..Len(stdout) : stdout[j].kind = "summary"

\* C10: every classifier call is made on the classifier object of one task
\* with rows of that task's files only; in the topology task's cells from the
\* loop on, clf is the topology classifier and its fitted state holds topology
\* training rows only; each Out value is the rounded score of that pairing.
C10_TasksIsolated ==
  /\ \A j \in 1..Len(calls) : \E t \in {"mag", "topo"} :
       /\ calls[j].clf = ModelFile(t)
       /\ \A r \in calls[j].rows : r[1] \in TaskRows(t)
       /\ calls[j].op = "score" =>
            /\ calls[j].rows = Rows([file |-> TestFile(t), n |-> 0],
                                    0..(Len(disk[TestFile(t)]) - 1))
            /\ Out[t] = RoundTo(calls[j].ret, 100)
  /\ (InLoop \/ AfterLoop) =>
       /\ clf.inst = ModelFile(pc.task)
       /\ X_train.file = TrainFile(pc.task)
       /\ \A r \in clf.fitted_on : r[1] = TrainFile(pc.task)

C10_Witness ==
  /\ pc = [task |-> "done", at |-> "done"]
  /\ calls[1].clf = ModelFile("topo")
  /\ Out["mag"] # -1 /\ Out["topo"] # -1

\* C6 as stated: in a fold whose truth or whose predictions hold one class
\* only, the score is 0 (for both polarities).
C6_Original_SingleClassScoresZero ==
  (m_fold # <<>> /\ (Cardinality(Range(m_true)) = 1 \/ Cardinality(Range(m_pred)) = 1))
    => (m_fold[1] = Zero /\ m_fold[2] = Zero)

\* C6 amended: every recorded F1 score lies in [0,1], for both polarities and
\* every pair of binary vectors; where the positive label is absent from the
\* truth or from the predictions the score is 0.
C6_F1InUnitInterval ==
  m_fold # <<>> =>
    \A c \in Labels :
      LET f == IF c = 1 THEN m_fold[1] ELSE m_fold[2]
      IN /\ f[2] > 0 /\ 0 <= f[1] /\ f[1] <= f[2]
         /\ (c \notin Range(m_true) \/ c \notin Range(m_pred)) => f = Zero

C6_Witness ==
  /\ m_fold # <<>>
  /\ Range(m_true) = {1} /\ Range(m_pred) = {1} /\ Len(m_true) = 2
  /\ m_fold = <<One, Zero>>

C8_AccuracyIsRoundedMatchShare ==
  /\ m_holdout # -1 =>
       LET n == Len(m_true)
           matches == Cardinality({j \in 1..n : m_pred[j] = m_true[j]})
           d == 200 * matches - 2 * n * m_holdout
       IN /\ -n <= d /\ d <= n
          /\ 0 <= m_holdout /\ m_holdout <= 100
  /\ RoundTo(Accuracy([j \in 1..315 |-> 0], [j \in 1..315 |-> IF j <= 252 THEN 0 ELSE 1]),
             100) = 80

C8_Witness ==
  /\ m_holdout = 67 /\ Len(m_true) = 3
  /\ Cardinality({j \in 1..Len(m_true) : m_pred[j] = m_true[j]}) = 2

====
